---- MODULE Spec2Model ----
(***************************************************************************)
(* Model of src/lib-fs/istream-metawrap.c: an input stream ("the filter")  *)
(* that sits on a parent stream ("the source") whose content starts with a *)
(* block of "key:value" lines ended by an empty line.  The filter hands    *)
(* every header line to a callback ("the sink") and then passes the rest   *)
(* of the source through.                                                  *)
(*                                                                         *)
(* Offsets are counted in bytes from 0, as in the C code.  content[i + 1]  *)
(* is the byte of the source at absolute offset i.                         *)
(*                                                                         *)
(* The generic stream library (i_stream_read, i_stream_seek,               *)
(* i_stream_read_next_line, i_stream_read_copy_from_parent, i_stream_stat) *)
(* is not part of the modelled file.  It is modelled here from the stream  *)
(* interface the filter consumes; the buffers are taken to be large enough *)
(* for the content (no "buffer full" return) and lines end in LF only.     *)
(***************************************************************************)
EXTENDS Integers, Sequences, FiniteSets, TLC

\* Longest source content (header and payload together), in bytes.
MaxLen == 5
\* Longest source content a pair of filters is run over.
MaxPairLen == 4

EINVAL == 22
LF == "\n"
COLON == ":"
\* The bytes a source is made of: a letter, the separator and the line end.
Chars == {"a", COLON, LF}
\* The error codes of the source: 0 is "no error", 5 stands for EIO.
SourceErrnos == {0, 5}

RECURSIVE StringsOfLen(_)
StringsOfLen(n) ==
    IF n = 0 THEN {<< >>}
    ELSE {Append(s, c) : s \in StringsOfLen(n - 1), c \in Chars}

Contents == UNION {StringsOfLen(n) : n \in 0..MaxLen}

\* What one read of a blocking source brings in at most: a byte at a time,
\* or all there is.
ChunkSizes == {1, MaxLen}

Min(a, b) == IF a <= b THEN a ELSE b

VARIABLES
    content,    \* the bytes of the source, header and payload
    blocking,   \* parent->blocking, inherited by the filter
    chunk,      \* the most bytes one read of the source brings in
    src_errno,  \* the error the source fails with at its end, 0 for none
    avail,      \* how many bytes of content have arrived at the source
    closed,     \* the source's end-of-input has arrived
    parent,     \* the source stream: v_offset, end, eof, stream_errno
    mstream,    \* struct metawrap_istream with its embedded istream_private
    st_size,    \* stream->statbuf.st_size after the last size query
    calls,      \* the callback invocations so far, <<key, value>> each
    out,        \* the bytes the read() calls have returned so far
    taken,      \* the bytes the caller has consumed from the filter's
                \* buffer so far
    twin,       \* a pair of filters, each over a source of its own with
                \* the same content: parent, mstream, calls, taken of each
    lastOp,     \* the last call: "read", "stat" ("stat_nosrc" when the
                \* source's own stat failed), "none" for any other step
    lastRet,    \* what that read() or stat() returned, 0 for any other
    panic       \* the i_assert that failed, "none" while the process lives

vars == <<content, blocking, chunk, src_errno, avail, closed, parent, mstream,
          st_size, calls, out, taken, twin, lastOp, lastRet, panic>>

----------------------------------------------------------------------------
(* The source stream, as the filter's calls see it.                        *)

\* The source's own read(): brings in at most chunk of the bytes that have
\* arrived; 0 when a non-blocking source has nothing yet; -1 at the end of
\* the source, with its error code when it has one.
ParentRead(p) ==
    IF p.stream_errno # 0 THEN [ret |-> -1, p |-> [p EXCEPT !.eof = TRUE]]
    ELSE IF p.end < avail THEN
        LET n == Min(chunk, avail - p.end)
        IN [ret |-> n, p |-> [p EXCEPT !.end = p.end + n, !.eof = FALSE]]
    ELSE IF ~closed THEN [ret |-> 0, p |-> [p EXCEPT !.eof = FALSE]]
    ELSE [ret |-> -1,
          p |-> [p EXCEPT !.eof = TRUE, !.stream_errno = src_errno]]

\* The offsets i of the buffered bytes of the source that hold a line end.
BufferedLFs(p) == {i \in p.v_offset..(p.end - 1) : content[i + 1] = LF}

\* i_stream_next_line(): the next complete line of the buffer, consumed
\* together with its LF; nothing when the buffer holds no LF.
NextLine(p) ==
    IF BufferedLFs(p) = {} THEN [found |-> FALSE, line |-> << >>, p |-> p]
    ELSE LET i == CHOOSE j \in BufferedLFs(p) : \A k \in BufferedLFs(p) : j <= k
         IN [found |-> TRUE,
             line |-> SubSeq(content, p.v_offset + 1, i),
             p |-> [p EXCEPT !.v_offset = i + 1]]

\* i_stream_read_next_line(): reads the source until a complete line is
\* buffered; gives up (NULL) when a read brings nothing. A last line
\* without LF stays in the buffer and is not returned. l is what
\* i_stream_next_line() found and r what i_stream_read() on the source
\* gives when it found nothing.
RECURSIVE ReadNextLine(_)
LineOrRead(l, r) ==
    IF l.found THEN l
    ELSE IF r.ret <= 0 THEN [found |-> FALSE, line |-> << >>, p |-> r.p]
    ELSE ReadNextLine(r.p)

ReadNextLine(p) == LineOrRead(NextLine(p), ParentRead(p))

\* i_stream_seek() on the source: a move inside the buffered data skips;
\* any other move drops the buffer and repositions the source.
i_stream_seek(p, v_offset) ==
    IF v_offset >= p.v_offset /\ v_offset <= p.end
    THEN [p EXCEPT !.v_offset = v_offset]
    ELSE [p EXCEPT !.v_offset = v_offset, !.end = v_offset, !.eof = FALSE]

----------------------------------------------------------------------------
(* istream-metawrap.c                                                      *)

\* strchr(line, ':'): the index of the first ':' of the line, 0 when none.
FirstColon(line) ==
    IF \E i \in 1..Len(line) : line[i] = COLON
    THEN CHOOSE i \in 1..Len(line) :
            line[i] = COLON /\ \A j \in 1..(i - 1) : line[j] # COLON
    ELSE 0

\* The index of the last ':' of the line, 0 when none (strrchr).
LastColon(line) ==
    IF \E i \in 1..Len(line) : line[i] = COLON
    THEN CHOOSE i \in 1..Len(line) :
            line[i] = COLON /\ \A j \in (i + 1)..Len(line) : line[j] # COLON
    ELSE 0

\* A line cut at its last ':' instead of its first.
SplitLineAtLast(line) ==
    LET c == LastColon(line)
    IN [ok |-> c # 0,
        key |-> SubSeq(line, 1, c - 1),
        value |-> SubSeq(line, c + 1, Len(line))]

\* p = strchr(line, ':'); *p++ = '\0': the line cut at its first ':' into
\* the key before it and the value after it; not ok when it has no ':'.
SplitLine(line) ==
    LET c == FirstColon(line)
    IN [ok |-> c # 0,
        key |-> SubSeq(line, 1, c - 1),
        value |-> SubSeq(line, c + 1, Len(line))]

\* A line without ':' that leaves no error code behind.
FormatErrorUnset(m) == m

\* A line without ':': stream_errno = EINVAL.
FormatError(m) == [m EXCEPT !.stream_errno = EINVAL]

\* The line reader gave up and the end of the source goes unnoticed: the
\* caller is told to retry.
NoLineNoEofCheck(p, m, cs) ==
    [ret |-> 0, p |-> p, m |-> m, calls |-> cs,
     panic |-> IF blocking THEN "parent_blocking" ELSE "none"]

\* The line reader gave up: at the end of the source the header is
\* truncated and the filter takes over the source's error code and ends;
\* otherwise the source, which must be non-blocking, has nothing for now.
NoLine(p, m, cs) ==
    IF p.eof THEN
        [ret |-> -1, p |-> p,
         m |-> [m EXCEPT !.stream_errno = p.stream_errno, !.eof = TRUE],
         calls |-> cs, panic |-> "none"]
    ELSE
        [ret |-> 0, p |-> p, m |-> m, calls |-> cs,
         panic |-> IF blocking THEN "parent_blocking" ELSE "none"]

\* metadata_header_read(): 1 when the empty line was read, -1 on a line
\* without ':' or at the end of the source, 0 when the source has nothing
\* more for now. l is what i_stream_read_next_line() returned.
RECURSIVE metadata_header_read(_, _, _)
HeaderLine(l, m, cs) ==
    IF ~l.found THEN NoLine(l.p, m, cs)
    ELSE IF l.line = << >> THEN
        [ret |-> 1, p |-> l.p, m |-> m, calls |-> cs, panic |-> "none"]
    ELSE IF ~SplitLine(l.line).ok THEN
        [ret |-> -1, p |-> l.p, m |-> FormatError(m),
         calls |-> cs, panic |-> "none"]
    ELSE
        metadata_header_read(l.p, m,
            Append(cs, <<SplitLine(l.line).key, SplitLine(l.line).value>>))

metadata_header_read(p, m, cs) == HeaderLine(ReadNextLine(p), m, cs)

\* i_stream_read_copy_from_parent(): the filter's buffer becomes the
\* source's buffered data from the source's current offset on; returns the
\* number of bytes that are new, reading the source when there are none.
\* CopyLoop is its do-while loop, r being what one read of the source gave.
RECURSIVE CopyLoop(_, _)
CopyLoopRead(r, m) ==
    IF r.p.end - r.p.v_offset <= m.pos /\ r.ret > 0
    THEN CopyLoop(r.p, [m EXCEPT !.stream_errno = r.p.stream_errno,
                                 !.eof = r.p.eof])
    ELSE [ret |-> r.ret, p |-> r.p,
          m |-> [m EXCEPT !.stream_errno = r.p.stream_errno,
                          !.eof = r.p.eof]]

CopyLoop(p, m) == CopyLoopRead(ParentRead(p), m)

\* The end of i_stream_read_copy_from_parent(): old_pos is the buffered
\* amount before, l the source and the filter after the loop.
CopyResult(l, old_pos) ==
    [ret |-> IF l.p.end - l.p.v_offset > old_pos
             THEN l.p.end - l.p.v_offset - old_pos
             ELSE IF l.ret = 0 THEN 0 ELSE -1,
     p |-> l.p,
     m |-> [l.m EXCEPT !.pos = l.p.end - l.p.v_offset,
                       !.buffer = l.p.v_offset]]

\* The start of i_stream_read_copy_from_parent(): m has its consumed bytes
\* dropped and its buffer set to the source's data.
CopyFrom(p, m) ==
    CopyResult(IF p.end - p.v_offset > m.pos
               THEN [ret |-> 0, p |-> p, m |-> m]
               ELSE CopyLoop(p, m),
               m.pos)

i_stream_read_copy_from_parent(p, m) ==
    CopyFrom(p, [m EXCEPT !.pos = m.pos - m.skip, !.skip = 0,
                          !.buffer = p.v_offset])

\* The source is positioned at the logical offset alone.
SeekTargetLogical(m) == m.v_offset

\* Where read() positions the source: start_offset + v_offset.
SeekTarget(m) == m.start_offset + m.v_offset

\* start_offset is recorded only once the header is complete.
RecordStartOffsetWhenDone(m, p, ret) ==
    IF ret <= 0 THEN m ELSE [m EXCEPT !.start_offset = p.v_offset]

\* start_offset takes the distance the source has moved in this call.
RecordStartOffsetRelative(m, p, ret) ==
    [m EXCEPT !.start_offset = p.v_offset - m.start_offset]

\* start_offset grows by the source's offset instead of being set to it.
RecordStartOffsetAccumulate(m, p, ret) ==
    [m EXCEPT !.start_offset = m.start_offset + p.v_offset]

\* mstream->start_offset = stream->parent->v_offset, whatever
\* metadata_header_read() returned.
RecordStartOffset(m, p, ret) == [m EXCEPT !.start_offset = p.v_offset]

\* Only a failure makes read() return early.
HeaderIncompleteOnFailure(ret) == ret < 0

\* if (ret <= 0) return ret: the header is not complete.
HeaderIncomplete(ret) == ret <= 0

\* The header is complete but in_metadata stays set.
EnterPassthroughKeepFlag(m) ==
    [m EXCEPT !.abs_start_offset = @ + m.start_offset]

\* stream->abs_start_offset += mstream->start_offset;
\* mstream->in_metadata = FALSE
EnterPassthrough(m) ==
    [m EXCEPT !.abs_start_offset = @ + m.start_offset, !.in_metadata = FALSE]

\* A result of read() or of one of its parts: the return value, the source
\* and the filter after it, the sink calls so far, the failed assertion.
Result(ret, p, m, cs, pnc) ==
    [ret |-> ret, p |-> p, m |-> m, calls |-> cs, panic |-> pnc]

\* The passthrough read at the end of i_stream_metawrap_read().
Passthrough(c, cs) == Result(c.ret, c.p, c.m, cs, "none")

\* i_stream_metawrap_read() in the header state, after its call of
\* metadata_header_read(), whose outcome is h; v_offset is the filter's
\* logical offset.
AfterHeaderRead(h, v_offset) ==
    IF h.panic # "none" THEN h
    ELSE IF v_offset # 0 THEN Result(h.ret, h.p, h.m, h.calls, "v_offset")
    ELSE IF HeaderIncomplete(h.ret) THEN
        Result(h.ret, h.p, RecordStartOffset(h.m, h.p, h.ret), h.calls, "none")
    ELSE
        Passthrough(
            i_stream_read_copy_from_parent(
                h.p, EnterPassthrough(RecordStartOffset(h.m, h.p, h.ret))),
            h.calls)

\* i_stream_metawrap_read()
i_stream_metawrap_read(p, m, cs) ==
    IF m.in_metadata THEN
        AfterHeaderRead(
            metadata_header_read(i_stream_seek(p, SeekTarget(m)), m, cs),
            m.v_offset)
    ELSE
        Passthrough(
            i_stream_read_copy_from_parent(i_stream_seek(p, SeekTarget(m)), m),
            cs)

\* The end of i_stream_read(): a stream that failed is marked as at its end.
ReadReturn(r) ==
    IF r.panic = "none" /\ r.ret = -1 /\ r.m.stream_errno # 0
    THEN [r EXCEPT !.m.eof = TRUE]
    ELSE r

\* i_stream_read() on the filter: refuses a stream that has failed, clears
\* eof and calls the filter's read().
i_stream_read(p, m, cs) ==
    IF m.stream_errno # 0 THEN Result(-1, p, m, cs, "none")
    ELSE ReadReturn(i_stream_metawrap_read(p, [m EXCEPT !.eof = FALSE], cs))

\* A result of stat(): that of the read it made, and the reported size.
StatResult(ret, r, size, pnc) ==
    [ret |-> ret, p |-> r.p, m |-> r.m, calls |-> r.calls, size |-> size,
     panic |-> pnc]

\* The outcome r of a read with the bytes it left buffered consumed.
Consumed(r) ==
    [r EXCEPT !.m.v_offset = @ + r.m.pos - r.m.skip, !.m.skip = r.m.pos]

\* stat() consumes the bytes that the read it forced has buffered.
AfterSourceStatConsuming(r, size0) ==
    IF r.panic # "none" THEN StatResult(-1, r, size0, r.panic)
    ELSE IF r.ret < 0 THEN StatResult(-1, r, size0, "none")
    ELSE IF r.ret = 0 THEN StatResult(0, r, -1, "none")
    ELSE IF size0 < r.m.start_offset THEN StatResult(-1, r, size0, "st_size")
    ELSE StatResult(0, Consumed(r), size0 - r.m.start_offset, "none")

\* i_stream_metawrap_stat() after the source's stat() gave size0: r is the
\* outcome of the read made in the header state (ret 1 stands for no read).
AfterSourceStat(r, size0) ==
    IF r.panic # "none" THEN StatResult(-1, r, size0, r.panic)
    ELSE IF r.ret < 0 THEN StatResult(-1, r, size0, "none")
    ELSE IF r.ret = 0 THEN StatResult(0, r, -1, "none")
    ELSE IF size0 < r.m.start_offset THEN StatResult(-1, r, size0, "st_size")
    ELSE StatResult(0, r, size0 - r.m.start_offset, "none")

\* A stat() that failed after the read whose outcome is r.
StatFailedAfterRead(r) == StatResult(-1, r, st_size, r.panic)

\* The read that drives the header parsing is made before the source's
\* own stat() is looked at.
StatReadsFirst(p, m, cs, st_ok) ==
    IF ~st_ok THEN
        StatFailedAfterRead(IF m.in_metadata THEN i_stream_read(p, m, cs)
                            ELSE Result(-1, p, m, cs, "none"))
    ELSE AfterSourceStat(IF m.in_metadata THEN i_stream_read(p, m, cs)
                         ELSE Result(1, p, m, cs, "none"),
                         Len(content))

\* i_stream_metawrap_stat(): st_ok is whether the source's own stat()
\* succeeds; the source reports the length of its content as its size.
i_stream_metawrap_stat(p, m, cs, st_ok) ==
    IF ~st_ok THEN StatResult(-1, Result(-1, p, m, cs, "none"), st_size, "none")
    ELSE AfterSourceStat(IF m.in_metadata THEN i_stream_read(p, m, cs)
                         ELSE Result(1, p, m, cs, "none"),
                         Len(content))

----------------------------------------------------------------------------
(* The state after i_stream_create_metawrap() over a fresh source, and the *)
(* operations of the filter's caller and of the source's environment.      *)

\* i_stream_create_metawrap(): in_metadata is set, everything else is zero.
NewMstream ==
    [in_metadata |-> TRUE, start_offset |-> 0, abs_start_offset |-> 0,
     v_offset |-> 0, skip |-> 0, pos |-> 0, buffer |-> 0,
     eof |-> FALSE, stream_errno |-> 0]

\* The source's stream before anything was read from it.
NewParent == [v_offset |-> 0, end |-> 0, eof |-> FALSE, stream_errno |-> 0]

\* Two more sources and a filter created over each.
NewTwin ==
    [i \in 1..2 |-> [parent |-> NewParent, mstream |-> NewMstream,
                     calls |-> << >>, taken |-> << >>]]

Init ==
    /\ content \in Contents
    /\ blocking \in BOOLEAN
    /\ chunk \in IF blocking THEN ChunkSizes ELSE {MaxLen}
    /\ src_errno \in IF blocking THEN SourceErrnos ELSE {0}
    /\ avail = IF blocking THEN Len(content) ELSE 0
    /\ closed = blocking
    /\ parent = NewParent
    /\ mstream = NewMstream
    /\ st_size = 0
    /\ calls = << >>
    /\ out = << >>
    /\ taken = << >>
    /\ twin = NewTwin
    /\ lastOp = "none"
    /\ lastRet = 0
    /\ panic = "none"

\* The bytes a read() that returned ret > 0 has added to the filter's
\* buffer: the last ret bytes of buffer[0..pos).
NewBytes(m, ret) ==
    IF ret > 0 THEN SubSeq(content, m.buffer + m.pos - ret + 1, m.buffer + m.pos)
    ELSE << >>

\* The state after a read() on the filter whose outcome is r.
ReadDone(r) ==
    /\ parent' = r.p
    /\ mstream' = r.m
    /\ calls' = r.calls
    /\ panic' = r.panic
    /\ lastRet' = r.ret
    /\ out' = IF r.panic = "none" THEN out \o NewBytes(r.m, r.ret) ELSE out

\* The caller calls i_stream_read() on the filter.
Read ==
    /\ panic = "none"
    /\ ReadDone(i_stream_read(parent, mstream, calls))
    /\ lastOp' = "read"
    /\ UNCHANGED <<content, blocking, chunk, src_errno, avail, closed, st_size,
                   taken, twin>>

\* The state after a stat() on the filter whose outcome is r.
StatDone(r, st_ok) ==
    /\ parent' = r.p
    /\ mstream' = r.m
    /\ calls' = r.calls
    /\ panic' = r.panic
    /\ lastRet' = r.ret
    /\ st_size' = r.size
    /\ lastOp' = IF st_ok THEN "stat" ELSE "stat_nosrc"

\* The caller calls i_stream_stat() on the filter.
Stat ==
    /\ panic = "none"
    /\ \E st_ok \in BOOLEAN :
         StatDone(i_stream_metawrap_stat(parent, mstream, calls, st_ok), st_ok)
    /\ UNCHANGED <<content, blocking, chunk, src_errno, avail, closed, out,
                   taken, twin>>

\* The first n bytes of the filter's buffered data: i_stream_get_data().
BufferData(m, n) ==
    SubSeq(content, m.buffer + m.skip + 1, m.buffer + m.skip + n)

\* The caller consumes n bytes of the filter's buffer: i_stream_get_data()
\* and i_stream_skip().
Skip ==
    /\ panic = "none"
    /\ \E n \in 1..(mstream.pos - mstream.skip) :
         /\ mstream' = [mstream EXCEPT !.skip = @ + n, !.v_offset = @ + n]
         /\ taken' = taken \o BufferData(mstream, n)
    /\ lastOp' = "none"
    /\ lastRet' = 0
    /\ UNCHANGED <<content, blocking, chunk, src_errno, avail, closed, parent,
                   st_size, calls, out, twin, panic>>

\* More bytes arrive at a non-blocking source.
Arrive ==
    /\ panic = "none"
    /\ avail < Len(content)
    /\ \E n \in (avail + 1)..Len(content) : avail' = n
    /\ lastOp' = "none"
    /\ lastRet' = 0
    /\ UNCHANGED <<content, blocking, chunk, src_errno, closed, parent,
                   mstream, st_size, calls, out, taken, twin, panic>>

\* The end of a non-blocking source arrives: a clean end of input, or the
\* failure the source ends with.
Close ==
    /\ panic = "none"
    /\ ~closed
    /\ avail = Len(content)
    /\ closed' = TRUE
    /\ src_errno' \in SourceErrnos
    /\ lastOp' = "none"
    /\ lastRet' = 0
    /\ UNCHANGED <<content, blocking, chunk, avail, parent,
                   mstream, st_size, calls, out, taken, twin, panic>>

Next == Read \/ Stat \/ Skip \/ Arrive \/ Close

Spec == Init /\ [][Next]_vars

\* A caller that reads and never asks for the size.
NextRead == Read \/ Skip \/ Arrive \/ Close

SpecRead == Init /\ [][NextRead]_vars

\* A read() whose outcome is r would change the state.
ReadChanges(r) ==
    \/ r.p # parent \/ r.m # mstream \/ r.calls # calls
    \/ r.panic # panic \/ r.ret # lastRet \/ r.ret > 0
    \/ lastOp # "read"

\* ENABLED <<Read>>_vars, computed from the outcome of the read.
ReadEnabled ==
    panic = "none" /\ ReadChanges(i_stream_read(parent, mstream, calls))

\* WF_vars(Read) written out, with ReadEnabled for ENABLED <<Read>>_vars:
\* the caller retries read() for as long as a read() changes anything.
ReadFairness == []<>(~ReadEnabled) \/ []<><<Read>>_vars

\* The same caller when it keeps retrying read(), over a non-blocking
\* source whose data and whose end arrive in the end.
SpecLive ==
    Init /\ [][NextRead]_vars
         /\ ReadFairness /\ WF_vars(Arrive) /\ WF_vars(Close)

\* Everything but the pair of filters.
soloVars == <<content, blocking, chunk, src_errno, avail, closed, parent,
              mstream, st_size, calls, out, taken, lastOp, lastRet>>

\* The state after a call on filter i of the pair whose outcome is r.
TwinDone(i, r) ==
    /\ twin' = [twin EXCEPT ![i].parent = r.p, ![i].mstream = r.m,
                            ![i].calls = r.calls]
    /\ panic' = r.panic

\* The caller of filter i of the pair calls i_stream_read() on it.
TwinRead(i) ==
    /\ panic = "none"
    /\ TwinDone(i, i_stream_read(twin[i].parent, twin[i].mstream,
                                 twin[i].calls))
    /\ UNCHANGED soloVars

\* The caller of filter i of the pair calls i_stream_stat() on it.
TwinStat(i) ==
    /\ panic = "none"
    /\ TwinDone(i, i_stream_metawrap_stat(twin[i].parent, twin[i].mstream,
                                          twin[i].calls, TRUE))
    /\ UNCHANGED soloVars

\* The caller of filter i of the pair consumes n bytes of its buffer.
TwinSkip(i) ==
    /\ panic = "none"
    /\ \E n \in 1..(twin[i].mstream.pos - twin[i].mstream.skip) :
         twin' = [twin EXCEPT ![i].mstream.skip = @ + n,
                              ![i].mstream.v_offset = @ + n,
                              ![i].taken = @ \o BufferData(twin[i].mstream, n)]
    /\ UNCHANGED <<soloVars, panic>>

\* Two filters, each with a caller of its own, over two sources that hold
\* the same content and get it at the same times; what a filter finds at
\* its source depends on when its caller calls.
NextPair ==
    \/ \E i \in 1..2 : TwinRead(i) \/ TwinStat(i) \/ TwinSkip(i)
    \/ Arrive
    \/ Close

\* The pair is run over the contents of up to MaxPairLen bytes.
InitPair == Init /\ Len(content) <= MaxPairLen

SpecPair == InitPair /\ [][NextPair]_vars

----------------------------------------------------------------------------
(* The wire format of the metadata block, stated on the whole content      *)
(* without reading it through a stream: zero or more "key:value" lines,    *)
(* then one empty line, then the payload.                                  *)

HasColon(line) == \E i \in 1..Len(line) : line[i] = COLON

\* Walks the content from offset i, start being where the current line
\* starts and lines the "key:value" lines passed so far. kind tells how the
\* header ends: "valid" at an empty line, "bad" at a non-empty line without
\* ':', "truncated" when the content ends first. end is the offset after
\* the line that decided it (for "truncated", where the unfinished last
\* line starts).
RECURSIVE ScanHeader(_, _, _)
ScanHeader(i, start, lines) ==
    IF i >= Len(content) THEN
        [kind |-> "truncated", lines |-> lines, end |-> start]
    ELSE IF content[i + 1] # LF THEN ScanHeader(i + 1, start, lines)
    ELSE LET line == SubSeq(content, start + 1, i)
         IN IF line = << >> THEN
                [kind |-> "valid", lines |-> lines, end |-> i + 1]
            ELSE IF ~HasColon(line) THEN
                [kind |-> "bad", lines |-> lines, end |-> i + 1]
            ELSE ScanHeader(i + 1, i + 1, Append(lines, line))

Header == ScanHeader(0, 0, << >>)

ValidHeader == Header.kind = "valid"
BadHeader == Header.kind = "bad"
TruncatedHeader == Header.kind = "truncated"

\* The bytes after a valid header block.
Payload == SubSeq(content, Header.end + 1, Len(content))

\* pair is line cut at its first ':' and nowhere else.
IsSplitOf(pair, line) ==
    /\ Len(pair) = 2
    /\ pair[1] \o <<COLON>> \o pair[2] = line
    /\ ~HasColon(pair[1])

\* The sink has got the first n of the header lines, each once, in file
\* order.
SinkGotLines(lines, n) ==
    /\ Len(calls) = n
    /\ n <= Len(lines)
    /\ \A k \in 1..n : IsSplitOf(calls[k], lines[k])

\* The last call was a read() that reported the end of input, no error.
CleanEof ==
    /\ lastOp = "read" /\ lastRet = -1
    /\ mstream.stream_errno = 0 /\ panic = "none"

----------------------------------------------------------------------------
(* The claims.                                                             *)

\* C1: with a valid header followed by payload B, the bytes the successive
\* read() calls return up to the end of input are exactly B, whatever the
\* header's length and however the source's data arrives in chunks.
C1_PayloadUnchanged ==
    ValidHeader =>
        /\ \E n \in 0..Len(Payload) : out = SubSeq(Payload, 1, n)
        /\ CleanEof => out = Payload

C1_Witness ==
    /\ ValidHeader /\ CleanEof /\ ~blocking
    /\ Len(calls) >= 1 /\ Len(Payload) >= 2 /\ out = Payload
    /\ mstream.v_offset = 1

\* C2: for a valid header the sink calls are the header's lines in file
\* order, one call per line, each cut at its first ':' only, untrimmed; an
\* empty header gives no call.
C2_SinkCallsAreHeaderLines ==
    LET h == Header
    IN (h.kind = "valid" /\ ~mstream.in_metadata) =>
           SinkGotLines(h.lines, Len(h.lines))

C2_Witness ==
    /\ ValidHeader /\ ~mstream.in_metadata
    /\ calls = << << <<"a">>, <<COLON>> >> >>

\* C3: a header line without ':' fails the operation with EINVAL, and from
\* then on every read() and stat() fails, no later line reaches the sink,
\* the filter stays in its header state and no payload byte is returned.
C3_BadLineIsFatal ==
    LET h == Header
    IN h.kind = "bad" =>
        /\ mstream.in_metadata /\ out = << >>
        /\ SinkGotLines(h.lines, Len(calls))
        /\ mstream.stream_errno \in {0, EINVAL}
        /\ parent.v_offset <= h.end
        /\ (parent.v_offset = h.end) <=> (mstream.stream_errno = EINVAL)
        /\ (mstream.stream_errno = EINVAL /\ lastOp \in {"read", "stat"}) =>
               lastRet = -1

C3_Witness ==
    /\ BadHeader /\ mstream.stream_errno = EINVAL
    /\ lastOp = "stat" /\ lastRet = -1
    /\ Header.end + 2 <= Len(content)
    /\ content[Header.end + 1] = COLON /\ content[Header.end + 2] = LF

\* C4: when the source ends before an empty line was read, read() returns
\* its failure value, the filter stays in its header state and no payload
\* byte is returned by that call or any later one.
C4_TruncatedHeaderFails ==
    LET h == Header
    IN h.kind = "truncated" =>
        /\ mstream.in_metadata /\ out = << >>
        /\ (lastOp = "read" /\ closed /\ panic = "none") => lastRet = -1
        /\ SinkGotLines(h.lines, Len(calls))

C4_Witness ==
    /\ TruncatedHeader /\ lastOp = "read" /\ closed /\ lastRet = -1
    /\ Len(calls) = 1 /\ parent.end > parent.v_offset /\ mstream.eof

\* C5: on a truncated header the filter's error code is the source's when
\* the source has one, and otherwise a non-zero truncation code.
C5_TruncationHasErrorCode ==
    (TruncatedHeader /\ lastOp = "read" /\ closed /\ panic = "none") =>
        /\ src_errno # 0 => mstream.stream_errno = src_errno
        /\ src_errno = 0 => mstream.stream_errno # 0

\* The whole content has arrived at the source, with a clean end of input.
FullyAvailable == closed /\ avail = Len(content) /\ src_errno = 0

\* C6: with a valid header and the content fully available, size() succeeds
\* and reports the source's size minus the length of the header block,
\* before any read() as well as after, for an empty payload too.
C6_SizeIsSourceMinusHeader ==
    (ValidHeader /\ FullyAvailable /\ lastOp = "stat" /\ panic = "none") =>
        /\ lastRet = 0
        /\ st_size = Len(content) - Header.end

\* This step is a read() or size() call that started and ended in the
\* header state and told the caller to retry: read() returned 0, or size()
\* reported success with the size unknown.
WouldBlockStep ==
    /\ mstream.in_metadata /\ mstream'.in_metadata
    /\ panic' = "none"
    /\ lastRet' = 0
    /\ \/ lastOp' = "read"
       \/ lastOp' = "stat" /\ st_size' = -1

\* The number of line ends of the content at the offsets from..(to - 1).
LFsBetween(from, to) ==
    Cardinality({i \in from..(to - 1) : content[i + 1] = LF})

\* C7 as stated: a read() or size() that returns would-block in the header
\* state leaves start_offset, in_metadata and the sink calls as they were.
C7_WouldBlockChangesNothing ==
    [][WouldBlockStep =>
          /\ mstream'.start_offset = mstream.start_offset
          /\ mstream'.in_metadata = mstream.in_metadata
          /\ calls' = calls]_vars

\* C7 as amended: such a call leaves in_metadata, the logical offset and
\* the returned payload as they were; start_offset moves forward over the
\* complete header lines the call has consumed, to the source's offset
\* after the last of them, and the sink gets one more call for each of
\* them; with no complete line to consume nothing changes.
C7_WouldBlockConsumesWholeLines ==
    [][WouldBlockStep =>
          /\ mstream'.in_metadata = mstream.in_metadata
          /\ mstream'.v_offset = mstream.v_offset
          /\ out' = out
          /\ mstream'.start_offset >= mstream.start_offset
          /\ mstream'.start_offset = parent'.v_offset
          /\ \/ mstream'.start_offset = 0
             \/ content[mstream'.start_offset] = LF
          /\ SubSeq(calls', 1, Len(calls)) = calls
          /\ Len(calls') - Len(calls) =
                 LFsBetween(mstream.start_offset, mstream'.start_offset)
          /\ (mstream'.start_offset = mstream.start_offset) =>
                 (calls' = calls /\ mstream' = mstream)]_vars

C7_Witness ==
    /\ mstream.in_metadata /\ lastOp = "read" /\ lastRet = 0
    /\ ~blocking /\ panic = "none"
    /\ Len(calls) = 1 /\ mstream.start_offset > 0
    /\ parent.end > parent.v_offset

\* C8: with a non-blocking source whose header arrives in any chunks, over
\* any retried read() and size() calls every header line reaches the sink
\* exactly once and in file order: the sink calls are always the lines
\* that lie before the offset the parsing has reached, none twice, none
\* skipped.
C8_LinesOnceInOrder ==
    LET h == Header
        reached == IF mstream.in_metadata THEN parent.v_offset ELSE h.end
        n == Min(LFsBetween(0, reached), Len(h.lines))
    IN ~blocking =>
          /\ SinkGotLines(h.lines, n)
          /\ (~mstream.in_metadata) => (h.kind = "valid" /\ n = Len(h.lines))

\* A read() retried after a size() that could not tell the size; two
\* lines have reached the sink and the start of a third is buffered.
C8_Witness ==
    /\ ~blocking /\ mstream.in_metadata /\ panic = "none"
    /\ Len(calls) = 2
    /\ lastOp = "read" /\ lastRet = 0 /\ st_size = -1
    /\ parent.end > parent.v_offset

\* C9: the filter's state changes only from the header state to
\* passthrough, only in a read() or size() call, and only when the empty
\* line that ends the header has been read; it never changes back.
C9_OneWayAtBlankLine ==
    [][(mstream'.in_metadata # mstream.in_metadata) =>
          /\ mstream.in_metadata /\ ~mstream'.in_metadata
          /\ lastOp' \in {"read", "stat"}
          /\ ValidHeader
          /\ mstream'.start_offset = Header.end
          /\ parent'.v_offset >= Header.end]_vars

C9_Witness ==
    /\ ~mstream.in_metadata /\ lastOp = "stat" /\ lastRet = 0
    /\ st_size = -1 /\ ~blocking /\ Len(calls) = 1

\* C10 as stated: start_offset is assigned once, at header completion, and
\* never decreases: its value changes only in the step that leaves the
\* header state.
C10_StartOffsetAssignedOnce ==
    [][(mstream'.start_offset # mstream.start_offset) =>
          /\ mstream.in_metadata /\ ~mstream'.in_metadata
          /\ mstream'.start_offset > mstream.start_offset]_vars

\* C10 as amended: start_offset never decreases and never changes once the
\* filter is in passthrough; in the header state every read() assigns it
\* the source's offset, so it can change several times before the header
\* is complete.
C10_StartOffsetMonotonic ==
    [][/\ mstream'.start_offset >= mstream.start_offset
       /\ (~mstream.in_metadata) =>
              mstream'.start_offset = mstream.start_offset
       /\ (mstream.in_metadata /\ lastOp' = "read" /\ panic' = "none"
           /\ mstream.stream_errno = 0) =>
              mstream'.start_offset = parent'.v_offset]_vars

C10_Witness ==
    /\ mstream.in_metadata /\ Len(calls) = 2
    /\ mstream.start_offset = 4 /\ lastOp = "read" /\ lastRet = 0
    /\ avail = 4

\* C11: with a blocking source no call tells the caller to retry: read()
\* never returns 0, in the header state or after it, stat() never reports
\* the size as unknown, and the assertion that a line reader giving up
\* before the end of the source means a non-blocking source never fails.
C11_BlockingRunsToCompletion ==
    blocking =>
        /\ panic # "parent_blocking"
        /\ lastOp = "read" => lastRet # 0
        /\ lastOp = "stat" => ~(lastRet = 0 /\ st_size = -1)

\* A blocking source read a byte at a time ends inside the second header
\* line: the line reader gave up at the end of the source.
C11_Witness ==
    /\ blocking /\ chunk = 1 /\ TruncatedHeader
    /\ mstream.in_metadata /\ lastOp = "read" /\ lastRet = -1
    /\ Len(calls) = 1 /\ parent.end > parent.v_offset /\ panic = "none"

\* C12: a stat() reports the size as unknown exactly when the header is
\* still incomplete for lack of input; when the header is complete, also
\* when the stat's own read completed it and no payload byte has arrived
\* yet, it reports the source's size minus start_offset; when its read
\* failed, it fails.
C12_UnknownOnlyWhileHeaderIncomplete ==
    (lastOp = "stat" /\ panic = "none") =>
        /\ (lastRet = 0 /\ st_size = -1) <=>
               (mstream.in_metadata /\ mstream.stream_errno = 0 /\ ~mstream.eof)
        /\ (~mstream.in_metadata /\ mstream.stream_errno = 0) =>
               (lastRet = 0 /\ st_size = Len(content) - mstream.start_offset)
        /\ (mstream.in_metadata /\ (mstream.stream_errno # 0 \/ mstream.eof)) =>
               lastRet = -1

\* One of the two sequences starts the other.
Comparable(s, t) ==
    \/ Len(s) <= Len(t) /\ s = SubSeq(t, 1, Len(s))
    \/ Len(t) <= Len(s) /\ t = SubSeq(s, 1, Len(t))

\* Filter t of the pair has run to the end of input: it has left the
\* header state, has seen the end of its source without an error, and its
\* caller has consumed all it buffered.
RanToEof(t) ==
    /\ ~t.mstream.in_metadata
    /\ t.mstream.eof /\ t.mstream.stream_errno = 0
    /\ t.mstream.skip = t.mstream.pos

\* C13: two filters over sources with the same content, each called and
\* fed on a schedule of its own, never disagree: at every moment the sink
\* calls of one start the sink calls of the other, likewise the payload
\* bytes their callers have consumed, and once both have run to the end
\* of input the sink calls and the payload bytes are the same.
C13_TwoFiltersAgree ==
    /\ Comparable(twin[1].calls, twin[2].calls)
    /\ Comparable(twin[1].taken, twin[2].taken)
    /\ (RanToEof(twin[1]) /\ RanToEof(twin[2])) =>
           /\ twin[1].calls = twin[2].calls
           /\ twin[1].taken = twin[2].taken

\* Both filters at the end of input of a non-blocking source with one
\* header line and a payload, after different calls: the first filter's
\* source was read to its end after the payload was consumed, the second
\* filter's source still stands right after the header.
C13_Witness ==
    /\ ~blocking /\ RanToEof(twin[1]) /\ RanToEof(twin[2])
    /\ Len(twin[1].calls) = 1 /\ Len(twin[1].taken) >= 1
    /\ twin[1].mstream.abs_start_offset = 3
    /\ twin[1].parent.v_offset = Len(content)
    /\ twin[2].parent.v_offset = 3
    /\ panic = "none"

\* C14: start_offset never exceeds the size the source reports, which is
\* the length of its content: the assertion before stat()'s subtraction
\* never fails and a size that stat() reports as known is never negative.
C14_SizeNeverBelowStartOffset ==
    /\ panic # "st_size"
    /\ mstream.start_offset <= Len(content)
    /\ (lastOp = "stat" /\ lastRet = 0 /\ st_size # -1) => st_size >= 0

\* The boundary: a stat() on a filter whose header takes the whole
\* content reports the size 0.
C14_Witness ==
    /\ lastOp = "stat" /\ lastRet = 0 /\ st_size = 0
    /\ ~mstream.in_metadata /\ Len(calls) = 1
    /\ mstream.start_offset = Len(content)

\* C15: once the filter has left the header state, start_offset is the
\* source's offset right after the empty line that ends the header; every
\* read() leaves the source positioned at start_offset + the logical
\* offset; the filter's buffered data starts at the source byte at
\* start_offset + logical offset and lies inside the content, so the
\* bytes the caller has consumed up to logical offset k are the source's
\* bytes from start_offset to start_offset + k, the first of them the
\* first payload byte.
C15_LogicalOffsetMapsToPayload ==
    LET h == Header
    IN ~mstream.in_metadata =>
        /\ h.kind = "valid"
        /\ mstream.start_offset = h.end
        /\ mstream.buffer + mstream.skip =
               mstream.start_offset + mstream.v_offset
        /\ mstream.buffer + mstream.pos <= Len(content)
        /\ (lastOp = "read" /\ mstream.stream_errno = 0) =>
               parent.v_offset = mstream.start_offset + mstream.v_offset
        /\ taken = SubSeq(content, mstream.start_offset + 1,
                          mstream.start_offset + mstream.v_offset)

\* A read() made at logical offset 1 behind a header of one line: the
\* source stands at offset 4 and the next payload byte is buffered.
C15_Witness ==
    /\ ~mstream.in_metadata /\ lastOp = "read" /\ lastRet = 1
    /\ Len(calls) = 1 /\ mstream.start_offset = 3
    /\ mstream.v_offset = 1 /\ parent.v_offset = 4
    /\ mstream.skip = 0 /\ mstream.pos = 1
    /\ Len(taken) = 1

\* The filter is in passthrough, the read() calls have returned the whole
\* payload and the last of them reported the end of the source, with the
\* error the source ended with if it ended with one.
AllDelivered ==
    /\ ~mstream.in_metadata /\ out = Payload
    /\ lastOp = "read" /\ lastRet = -1
    /\ mstream.stream_errno = src_errno /\ panic = "none"

\* C16: with a non-blocking source that holds a valid header, whose data
\* and end arrive eventually, and a caller that keeps retrying read(), the
\* filter eventually leaves the header state, and eventually the reads
\* have returned every payload byte and then the end of input.
C16_EventuallyAllDelivered ==
    (~blocking /\ ValidHeader) ~> AllDelivered

\* The end of a run that began with nothing arrived: a header line and a
\* two-byte payload delivered, the clean end of input reported.
C16_Witness ==
    /\ ~blocking /\ ValidHeader /\ AllDelivered
    /\ Len(calls) = 1 /\ Len(out) = 2 /\ src_errno = 0

\* C17: the sink is called for header lines only: it never has more calls
\* than the header has lines, and no step taken in passthrough, read() or
\* stat(), adds a call, whatever the payload looks like.
C17_SinkOnlyForHeader ==
    /\ [](Len(calls) <= Len(Header.lines))
    /\ [][~mstream.in_metadata => calls' = calls]_vars

\* A header of one line and the payload ":" LF, itself of the form
\* "key:value", read to the end; the sink has the one header line.
C17_Witness ==
    /\ ~mstream.in_metadata /\ Len(calls) = 1
    /\ Payload = <<COLON, LF>> /\ out = Payload
    /\ lastOp = "read" /\ lastRet = -1 /\ panic = "none"

\* C18: a stat() on a filter whose source's own stat() fails returns -1
\* and has parsed nothing: the sink calls, the filter (in_metadata and
\* start_offset with it) and the source's stream are as before the call.
C18_SourceStatFailureFirst ==
    [][lastOp' = "stat_nosrc" =>
          /\ lastRet' = -1
          /\ calls' = calls
          /\ mstream' = mstream
          /\ parent' = parent
          /\ panic' = panic]_vars

\* Such a stat() made in the header state when a whole header line has
\* arrived and none was parsed yet.
C18_Witness ==
    /\ lastOp = "stat_nosrc" /\ lastRet = -1
    /\ mstream.in_metadata /\ calls = << >>
    /\ parent.end = 0 /\ avail >= 2
    /\ content[1] = COLON /\ content[2] = LF

\* C19: while the filter is in the header state its logical offset is 0,
\* its buffer is empty, and no byte has been returned to or consumed by
\* the caller; the assertion v_offset == 0 of read() never fails.
C19_HeaderStateAtOffsetZero ==
    /\ panic # "v_offset"
    /\ mstream.in_metadata =>
           /\ mstream.v_offset = 0
           /\ mstream.pos = 0 /\ mstream.skip = 0
           /\ out = << >> /\ taken = << >>

\* The header state after a stat() that parsed one line and found the
\* start of the next one: the source has buffered bytes, the filter none.
C19_Witness ==
    /\ mstream.in_metadata /\ lastOp = "stat" /\ lastRet = 0
    /\ st_size = -1 /\ Len(calls) = 1
    /\ parent.end > parent.v_offset /\ panic = "none"

\* The payload bytes the filter has handed to its caller: those the caller
\* has consumed and, after them, those that wait in the filter's buffer.
Delivered == taken \o BufferData(mstream, mstream.pos - mstream.skip)

\* C20 as stated: with stat() calls made at any point between the read()
\* calls, before the first one too, the sink calls and the bytes the
\* read() calls deliver are what they are without them: with a valid
\* header, at the clean end of input the sink has the header's lines and
\* the reads have returned the whole payload.
C20_ReadsReturnWholePayload ==
    LET h == Header
    IN (h.kind = "valid" /\ CleanEof) =>
           /\ SinkGotLines(h.lines, Len(h.lines))
           /\ out = Payload

\* C20 as amended: stat() calls change nothing of what reaches the caller
\* through the filter's buffer. With a valid header, whatever calls were
\* made, the sink calls are the header's lines as far as parsed, and the
\* bytes handed to the caller are the payload's bytes in order, none lost
\* and none twice, all of them once the clean end of the source was seen;
\* a stat() step itself consumes nothing and only adds to the buffered
\* bytes, which no later read() counts in its return value.
C20_StatIsTransparent ==
    /\ [](LET h == Header
          IN h.kind = "valid" =>
              /\ SinkGotLines(h.lines, Len(calls))
              /\ ~mstream.in_metadata => Len(calls) = Len(h.lines)
              /\ Delivered = SubSeq(Payload, 1, Len(Delivered))
              /\ Len(taken) = mstream.v_offset
              /\ (~mstream.in_metadata /\ mstream.eof
                  /\ mstream.stream_errno = 0) => Delivered = Payload)
    /\ [][lastOp' = "stat" =>
             /\ taken' = taken /\ out' = out
             /\ mstream'.v_offset = mstream.v_offset
             /\ Len(Delivered') >= Len(Delivered)]_vars

\* A stat() made before any read() completed the header and buffered the
\* two payload bytes; the caller consumed one, and the read() made then
\* found the end of the source.
C20_Witness ==
    /\ ValidHeader /\ ~mstream.in_metadata /\ Len(calls) = 1
    /\ st_size = 2 /\ out = << >> /\ Len(taken) = 1
    /\ lastOp = "read" /\ lastRet = -1
    /\ mstream.eof /\ mstream.stream_errno = 0
    /\ Delivered = Payload /\ panic = "none"

====
